---- MODULE Spec2Model ----
(***************************************************************************)
(* Transport layer of socketio/engine/transports.py: the shared            *)
(* BaseTransport life cycle, the long-polling transport (PollingTransport  *)
(* with the XHRPollingTransport write path) and the WebsocketTransport     *)
(* with its background receive greenlet.                                   *)
(*                                                                         *)
(* One transport object is modelled.  Every handler of the code is a       *)
(* function from transport state to transport state (a record s), written  *)
(* statement by statement; an exception leaving a statement is kept in     *)
(* s.raised and every later statement of the enclosing calls is skipped    *)
(* until a try/except of the code catches it.  An action of the model is   *)
(* one whole handler call made from outside the transport (or one wake-up  *)
(* of the receive greenlet, which suspends only in websocket.receive()).   *)
(*                                                                         *)
(* Response, the exchange's abort(), the EventEmitter and the Parser are   *)
(* modules of the repository that are not part of the source at hand;      *)
(* they are modelled from the specification's description of them.         *)
(* Response headers (content type, CORS, user agent) carry no state of     *)
(* the transport and are left out; every exchange is assumed to carry the  *)
(* headers write() reads.                                                  *)
(***************************************************************************)
EXTENDS Integers, Sequences, FiniteSets, TLC

VARIABLES kind, error_listener, ready_state, writable, should_close, request,
          data_request, websocket, jobs, exch, trace, raised, nextex,
          close_emits, op, pre

vars == <<kind, error_listener, ready_state, writable, should_close, request,
          data_request, websocket, jobs, exch, trace, raised, nextex,
          close_emits, op, pre>>

(* ---- bounds ---------------------------------------------------------- *)
\* number of exchanges (HTTP requests) the dispatcher hands to the transport
MaxExchanges == 2
\* longest payload (packets in one POST body)
MaxPayload == 3
\* longest batch handed to send()
MaxBatch == 2
\* the count of emitted 'close' events saturates here
MaxCloseEmits == 2

None == 0
Exchanges == 1..MaxExchanges

(* ---- packets and the Parser ------------------------------------------ *)
NoPacket == [type |-> "", data |-> ""]
Pkt(t, d) == [type |-> t, data |-> d]
PacketTypes == <<"open", "close", "ping", "pong", "message", "upgrade", "noop">>
TypeCodes == <<"0", "1", "2", "3", "4", "5", "6">>
LenTokens == <<"1", "2">>

IndexOf(seq, x) == CHOOSE i \in 1..Len(seq) : seq[i] = x

\* Parser.encode_packet: the type's code followed by the packet's data
encode_packet(p) ==
    IF p.data = "" THEN <<TypeCodes[IndexOf(PacketTypes, p.type)]>>
    ELSE <<TypeCodes[IndexOf(PacketTypes, p.type)], p.data>>

\* Parser.decode_packet: the inverse reading of one encoded packet
decode_packet(m) ==
    [type |-> PacketTypes[IndexOf(TypeCodes, m[1])],
     data |-> IF Len(m) > 1 THEN m[2] ELSE ""]

RECURSIVE encode_payload(_)
\* Parser.encode_payload: each packet framed as <length> ":" <packet>
encode_payload(ps) ==
    IF ps = <<>> THEN <<>>
    ELSE LET e == encode_packet(Head(ps))
         IN <<LenTokens[Len(e)], ":">> \o e \o encode_payload(Tail(ps))

RECURSIVE decode_payload(_)
\* Parser.decode_payload: read a length, the colon, then that many tokens
decode_payload(b) ==
    IF Len(b) < 3 \/ b[2] # ":" THEN <<>>
    ELSE LET n == IndexOf(LenTokens, b[1])
         IN <<decode_packet(SubSeq(b, 3, 2 + n))>>
              \o decode_payload(SubSeq(b, 3 + n, Len(b)))

ClosePacket == Pkt("close", "")
NoopPacket == Pkt("noop", "")
\* packets a client or the session layer hands to the transport
InPackets == {Pkt("message", "a"), Pkt("message", "b"), ClosePacket}
OutPackets == {Pkt("message", "a"), Pkt("pong", "")}
\* batches the session layer flushes onto a poll
PollBatches == {<<Pkt("pong", "")>>, <<Pkt("message", "a"), Pkt("pong", "")>>}

RECURSIVE SeqsUpTo(_, _)
SeqsUpTo(S, n) ==
    IF n = 0 THEN {<<>>}
    ELSE LET shorter == SeqsUpTo(S, n - 1)
         IN shorter \cup {Append(q, x) : q \in {t \in shorter : Len(t) = n - 1}, x \in S}

\* payloads a client may POST, batches the session layer may send
Payloads == SeqsUpTo(InPackets, MaxPayload)
Batches == SeqsUpTo(OutPackets, MaxBatch) \ {<<>>}

(* ---- the trace of one handler call ----------------------------------- *)
Ev(e, x, st, p, d, f) ==
    [ev |-> e, ex |-> x, status |-> st, pkt |-> p, data |-> d, flag |-> f]
Log(s, e) == [s EXCEPT !.trace = Append(@, e)]
Raise(s, exc) == [s EXCEPT !.raised = exc]
Ok(s) == s.raised = "none"

RECURSIVE SelectEv(_, _)
\* the events of a trace whose name is in the set names, in order
SelectEv(t, names) ==
    IF t = <<>> THEN <<>>
    ELSE IF Head(t).ev \in names THEN <<Head(t)>> \o SelectEv(Tail(t), names)
    ELSE SelectEv(Tail(t), names)

(* ---- exchanges: Response and abort ----------------------------------- *)
FreshExchange ==
    [method |-> "", is_set |-> FALSE, status |-> 0, body |-> <<>>,
     aborted |-> FALSE, pre_end |-> 0, post_end |-> <<>>, end_calls |-> 0]

RemoveFirst(seq, x) ==
    IF \E i \in 1..Len(seq) : seq[i] = x
    THEN LET i == CHOOSE k \in 1..Len(seq) : seq[k] = x /\ \A m \in 1..(k-1) : seq[m] # x
         IN SubSeq(seq, 1, i - 1) \o SubSeq(seq, i + 1, Len(seq))
    ELSE seq

\* _cleanup_poll unhooking the listener but keeping the binding
_cleanup_poll_keep(s) ==
    IF ~Ok(s) THEN s
    ELSE IF s.request = None THEN Raise(s, "AttributeError")
    ELSE [s EXCEPT !.exch[s.request].post_end = RemoveFirst(@, "_cleanup_poll")]

\* PollingTransport._cleanup_poll: unhook from the bound poll's response
\* and release the binding
_cleanup_poll(s) ==
    IF ~Ok(s) THEN s
    ELSE IF s.request = None THEN Raise(s, "AttributeError")
    ELSE [s EXCEPT !.exch[s.request].post_end = RemoveFirst(@, "_cleanup_poll"),
                   !.request = None]

\* PollingTransport._cleanup_data: the same for the data exchange
_cleanup_data(s) ==
    IF ~Ok(s) THEN s
    ELSE IF s.data_request = None THEN Raise(s, "AttributeError")
    ELSE [s EXCEPT !.exch[s.data_request].post_end = RemoveFirst(@, "_cleanup_data"),
                   !.data_request = None]

RECURSIVE emit_post_end(_, _)
\* EventEmitter.emit('post_end'): the listeners registered on the response,
\* in registration order
emit_post_end(s, ls) ==
    IF ls = <<>> \/ ~Ok(s) THEN s
    ELSE emit_post_end(IF Head(ls) = "_cleanup_poll" THEN _cleanup_poll(s)
                       ELSE _cleanup_data(s), Tail(ls))

\* a pre_end hook that leaves the flag alone
pre_end_keep(s) == s

\* the pre_end closure of on_poll_request: self.writable = False
pre_end(s) == [s EXCEPT !.writable = FALSE]

\* Response.end(status_code, body): refuses a response that was already
\* ended, announces 'pre_end', finalizes, announces 'post_end'; end_calls
\* counts the calls made on the response (it stops counting at two)
Response_end(s, ex, status, body) ==
    IF ~Ok(s) THEN s
    ELSE IF s.exch[ex].is_set
    THEN Raise([s EXCEPT !.exch[ex].end_calls = IF @ < 2 THEN @ + 1 ELSE @],
               "ResponseAlreadyEnded")
    ELSE LET s1 == IF s.exch[ex].pre_end > 0 THEN pre_end(s) ELSE s
             b  == IF body = <<>> THEN s1.exch[ex].body ELSE body
             s2 == Log([s1 EXCEPT !.exch[ex].is_set = TRUE,
                                  !.exch[ex].end_calls = @ + 1,
                                  !.exch[ex].status = status,
                                  !.exch[ex].body = b],
                       Ev("end", ex, status, NoPacket, b, FALSE))
         IN emit_post_end(s2, s2.exch[ex].post_end)

\* request.abort(): the exchange's connection is dropped
abort(s, ex) ==
    IF ~Ok(s) THEN s
    ELSE Log([s EXCEPT !.exch[ex].aborted = TRUE],
             Ev("abort", ex, 0, NoPacket, <<>>, FALSE))

(* ---- BaseTransport --------------------------------------------------- *)
\* BaseTransport.on_error: emits 'error' only when a listener is registered
on_error(s) ==
    IF ~Ok(s) THEN s
    ELSE IF s.error_listener
         THEN Log(s, Ev("error", 0, 0, NoPacket, <<>>, FALSE))
         ELSE Log(s, Ev("ignored_error", 0, 0, NoPacket, <<>>, FALSE))

\* BaseTransport.on_packet
on_packet(s, p) ==
    IF ~Ok(s) THEN s ELSE Log(s, Ev("packet", 0, 0, p, <<>>, FALSE))

\* BaseTransport.on_data: one packet per frame
Base_on_data(s, data) ==
    IF ~Ok(s) THEN s
    ELSE on_packet(Log(s, Ev("on_data", 0, 0, NoPacket, data, FALSE)),
                   decode_packet(data))

\* BaseTransport.on_close
on_close(s) ==
    IF ~Ok(s) THEN s
    ELSE Log([s EXCEPT !.ready_state = "closed",
                       !.close_emits = IF @ < MaxCloseEmits THEN @ + 1 ELSE @],
             Ev("close", 0, 0, NoPacket, <<>>, FALSE))

(* ---- PollingTransport / XHRPollingTransport -------------------------- *)
\* XHRPollingTransport.write: append to the bound poll's response, end it
write(s, data) ==
    IF ~Ok(s) THEN s
    ELSE LET s0 == Log(s, Ev("write", s.request, 0, NoPacket, data, FALSE))
         IN IF s0.request = None THEN Raise(s0, "AttributeError")
            ELSE Response_end([s0 EXCEPT !.exch[s0.request].body = @ \o data],
                              s0.request, 200, <<>>)

\* PollingTransport.send: with should_close set, packets.push(...) is
\* called on a list, which has no such attribute
Polling_send(s, packets) ==
    IF ~Ok(s) THEN s
    ELSE IF s.should_close THEN Raise(s, "AttributeError")
    ELSE write(s, encode_payload(packets))

\* PollingTransport.do_close
Polling_do_close(s) ==
    IF ~Ok(s) THEN s
    ELSE LET s1 == IF s.data_request # None THEN abort(s, s.data_request) ELSE s
         IN IF s1.writable THEN Polling_send(s1, <<ClosePacket>>)
            ELSE [s1 EXCEPT !.should_close = TRUE]

(* ---- WebsocketTransport: close path ---------------------------------- *)
\* gevent.kill(job) for every job: the throw is scheduled on the hub and
\* reaches a greenlet only where it is suspended (in websocket.receive());
\* the greenlet that is running goes on, a dead one stays dead
kill_jobs(s) ==
    [s EXCEPT !.jobs = [i \in DOMAIN @ |->
                          IF @[i].state = "receiving"
                          THEN [@[i] EXCEPT !.state = "kill_pending"]
                          ELSE @[i]]]

\* WebsocketTransport.do_close
Websocket_do_close(s) ==
    IF ~Ok(s) THEN s
    ELSE LET s1 == kill_jobs(s)
         IN IF s1.websocket = "None" THEN Raise(s1, "AttributeError")
            ELSE on_close([s1 EXCEPT !.websocket = "closed"])

\* self.do_close() as dispatched on the transport's class
do_close(s) ==
    IF s.kind = "polling" THEN Polling_do_close(s) ELSE Websocket_do_close(s)

\* BaseTransport.close
close(s) ==
    IF ~Ok(s) THEN s
    ELSE LET s0 == Log([s EXCEPT !.ready_state = "closing"],
                       Ev("close()", 0, 0, NoPacket, <<>>, FALSE))
             s1 == IF s0.request = None THEN Raise(s0, "AttributeError")
                   ELSE IF ~s0.exch[s0.request].is_set
                        THEN Response_end(s0, s0.request, 200, <<"closed">>)
                        ELSE s0
         IN do_close(s1)

(* ---- PollingTransport: inbound exchanges ----------------------------- *)
RECURSIVE on_data_loop_nobreak(_, _)
\* on_data's loop without the break after close()
on_data_loop_nobreak(s, pkts) ==
    IF pkts = <<>> \/ ~Ok(s) THEN s
    ELSE IF Head(pkts).type = "close"
         THEN on_data_loop_nobreak(close(s), Tail(pkts))
    ELSE on_data_loop_nobreak(on_packet(s, Head(pkts)), Tail(pkts))

RECURSIVE on_data_loop(_, _)
on_data_loop(s, pkts) ==
    IF pkts = <<>> \/ ~Ok(s) THEN s
    ELSE IF Head(pkts).type = "close" THEN close(s)
    ELSE on_data_loop(on_packet(s, Head(pkts)), Tail(pkts))

\* PollingTransport.on_data: a payload of packets; a close packet closes
\* the transport and ends the loop
Polling_on_data(s, data) ==
    IF ~Ok(s) THEN s
    ELSE on_data_loop(Log(s, Ev("on_data", 0, 0, NoPacket, data, FALSE)),
                      decode_payload(data))

\* on_data_request answering 200 'ok' before the body is processed
on_data_request_early_ok(s, r, body) ==
    IF ~Ok(s) THEN s
    ELSE LET s1 == [s EXCEPT !.data_request = r,
                             !.exch[r].post_end = Append(@, "_cleanup_data")]
             s2 == Response_end(s1, s1.data_request, 200, <<"ok">>)
         IN Polling_on_data(s2, body)

\* PollingTransport.on_data_request; body is the request's body
on_data_request(s, r, body) ==
    IF ~Ok(s) THEN s
    ELSE LET s1 == [s EXCEPT !.data_request = r,
                             !.exch[r].post_end = Append(@, "_cleanup_data")]
             s2 == Polling_on_data(s1, body)
         IN IF ~Ok(s2) THEN s2
            ELSE IF s2.data_request = None THEN Raise(s2, "AttributeError")
            ELSE Response_end(s2, s2.data_request, 200, <<"ok">>)

\* what the session layer's 'drain' listener does with the channel that
\* became available: nothing, flush buffered packets, or close
DrainReactions == {"none", "send", "close"}

drain_listener(s, d) ==
    IF d = "send" THEN Polling_send(s, <<Pkt("message", "a")>>)
    ELSE IF d = "close" THEN close(s)
    ELSE s

\* PollingTransport.on_poll_request
on_poll_request(s, r, d) ==
    IF ~Ok(s) THEN s
    ELSE IF s.request # None /\ s.request # r
    THEN Response_end(on_error(s), s.request, 500, <<>>)
    ELSE LET s1 == [s EXCEPT !.request = r,
                             !.exch[r].post_end = Append(@, "_cleanup_poll"),
                             !.exch[r].pre_end = @ + 1,
                             !.writable = TRUE]
             s2 == drain_listener(Log(s1, Ev("drain", r, 0, NoPacket, <<>>, FALSE)), d)
         IN IF ~Ok(s2) THEN s2
            ELSE IF s2.should_close THEN Polling_send(s2, <<NoopPacket>>)
            ELSE s2

\* PollingTransport.process_request (XHRPollingTransport adds only headers)
Polling_process_request(s, r, d, body) ==
    IF s.exch[r].method = "GET" THEN on_poll_request(s, r, d)
    ELSE IF s.exch[r].method = "POST" THEN on_data_request(s, r, body)
    ELSE s

(* ---- WebsocketTransport ---------------------------------------------- *)
Unbound == <<>>
NoneMessage == <<"None">>
NewJob(r) == [state |-> "receiving", message |-> Unbound, request |-> r]

\* process_request marking the transport writable before it has looked
\* for the upgraded socket
Websocket_process_request_eager(s, r, has_websocket) ==
    IF ~Ok(s) THEN s
    ELSE LET s1 == [s EXCEPT !.request = r, !.writable = TRUE]
         IN IF has_websocket
            THEN [s1 EXCEPT !.websocket = "open",
                            !.jobs = Append(@, NewJob(r))]
            ELSE Response_end(s1, r, 500, <<"not able to create websocket">>)

\* WebsocketTransport.process_request
Websocket_process_request(s, r, has_websocket) ==
    IF ~Ok(s) THEN s
    ELSE LET s1 == [s EXCEPT !.request = r]
         IN IF has_websocket
            THEN [s1 EXCEPT !.websocket = "open",
                            !.writable = TRUE,
                            !.jobs = Append(@, NewJob(r))]
            ELSE Response_end(s1, r, 500, <<"not able to create websocket">>)

RECURSIVE Websocket_send_loop_abort(_, _, _, _)
\* send's loop giving up the batch at the first frame that fails
Websocket_send_loop_abort(s, packets, i, fails) ==
    IF i > Len(packets) \/ ~Ok(s) THEN s
    ELSE LET s1 == [s EXCEPT !.writable = FALSE]
         IN IF s1.websocket = "None" THEN Raise(s1, "AttributeError")
            ELSE LET failed == i \in fails \/ s1.websocket = "closed"
                     s2 == Log(s1, Ev("ws.send", i, IF failed THEN 0 ELSE 1,
                                      packets[i], encode_packet(packets[i]),
                                      s1.writable))
                 IN IF failed THEN [on_error(s2) EXCEPT !.writable = TRUE]
                    ELSE Websocket_send_loop_abort([s2 EXCEPT !.writable = TRUE],
                                                   packets, i + 1, fails)

RECURSIVE Websocket_send_loop(_, _, _, _)
Websocket_send_loop(s, packets, i, fails) ==
    IF i > Len(packets) \/ ~Ok(s) THEN s
    ELSE LET s1 == [s EXCEPT !.writable = FALSE]
         IN IF s1.websocket = "None" THEN Raise(s1, "AttributeError")
            ELSE LET failed == i \in fails \/ s1.websocket = "closed"
                     s2 == Log(s1, Ev("ws.send", i, IF failed THEN 0 ELSE 1,
                                      packets[i], encode_packet(packets[i]),
                                      s1.writable))
                     s3 == IF failed THEN on_error(s2) ELSE s2
                 IN Websocket_send_loop([s3 EXCEPT !.writable = TRUE],
                                        packets, i + 1, fails)

\* WebsocketTransport.send: fails are the positions of the batch at which
\* websocket.send raises WebSocketError (a closed socket refuses every frame)
Websocket_send(s, packets, fails) == Websocket_send_loop(s, packets, 1, fails)

\* read_from_ws without the except clause around the final end()
read_from_ws_uncaught(s, j, result, frame) ==
    LET s0 == [s EXCEPT !.jobs[j].state = "running"]
        msg == IF result = "frame" THEN frame
               ELSE IF result = "eof" THEN NoneMessage
               ELSE s0.jobs[j].message
        s1 == IF result = "error" THEN on_error(s0) ELSE s0
        s2 == [s1 EXCEPT !.jobs[j].message = msg]
        s3 == IF msg = Unbound THEN Raise(s2, "UnboundLocalError")
              ELSE IF msg = NoneMessage
              THEN LET c == close(s2)
                   IN Response_end(c, c.jobs[j].request, 200,
                                   <<"The websocket closed">>)
              ELSE Base_on_data(s2, msg)
    IN [s3 EXCEPT !.jobs[j].state =
            IF ~Ok(s3) THEN "crashed"
            ELSE IF msg = NoneMessage THEN "finished"
            ELSE s.jobs[j].state]

\* one wake-up of read_from_ws in job j: websocket.receive() returns a
\* frame, raises WebSocketError, or returns None; the greenlet then runs
\* until it blocks in receive() again (a kill still on its way to it stays
\* on its way), returns, or dies of an exception
read_from_ws(s, j, result, frame) ==
    LET s0 == [s EXCEPT !.jobs[j].state = "running"]
        msg == IF result = "frame" THEN frame
               ELSE IF result = "eof" THEN NoneMessage
               ELSE s0.jobs[j].message
        s1 == IF result = "error" THEN on_error(s0) ELSE s0
        s2 == [s1 EXCEPT !.jobs[j].message = msg]
        s3 == IF msg = Unbound THEN Raise(s2, "UnboundLocalError")
              ELSE IF msg = NoneMessage
              THEN LET c == close(s2)
                       e == Response_end(c, c.jobs[j].request, 200,
                                         <<"The websocket closed">>)
                   IN IF Ok(c) /\ e.raised = "ResponseAlreadyEnded"
                      THEN Log(c, Ev("caught", c.jobs[j].request, 0, NoPacket,
                                     <<"ResponseAlreadyEnded">>, FALSE))
                      ELSE e
              ELSE Base_on_data(s2, msg)
    IN [s3 EXCEPT !.jobs[j].state =
            IF ~Ok(s3) THEN "crashed"
            ELSE IF msg = NoneMessage THEN "finished"
            ELSE s.jobs[j].state]

(* ---- the state record and the actions -------------------------------- *)
State ==
    [kind |-> kind, error_listener |-> error_listener,
     ready_state |-> ready_state, writable |-> writable,
     should_close |-> should_close, request |-> request,
     data_request |-> data_request, websocket |-> websocket, jobs |-> jobs,
     exch |-> exch, trace |-> <<>>, raised |-> "none",
     close_emits |-> close_emits]

Snapshot ==
    [ready_state |-> ready_state, writable |-> writable,
     should_close |-> should_close, request |-> request,
     data_request |-> data_request, websocket |-> websocket]

Op(name, ex, packets, arg, fails) ==
    [name |-> name, ex |-> ex, packets |-> packets, arg |-> arg, fails |-> fails]

\* the transport after a handler call that left it as s
Apply(s, o) ==
    /\ ready_state' = s.ready_state
    /\ writable' = s.writable
    /\ should_close' = s.should_close
    /\ request' = s.request
    /\ data_request' = s.data_request
    /\ websocket' = s.websocket
    /\ jobs' = s.jobs
    /\ exch' = s.exch
    /\ trace' = s.trace
    /\ raised' = s.raised
    /\ close_emits' = s.close_emits
    /\ op' = o
    /\ pre' = Snapshot
    /\ UNCHANGED <<kind, error_listener>>

Arrive(method) == [State EXCEPT !.exch[nextex].method = method]

Init ==
    /\ kind \in {"polling", "websocket"}
    /\ error_listener \in BOOLEAN
    /\ ready_state = "opening"
    /\ writable = FALSE
    /\ should_close = FALSE
    /\ request = None
    /\ data_request = None
    /\ websocket = "None"
    /\ jobs = <<>>
    /\ exch = [x \in Exchanges |-> FreshExchange]
    /\ trace = <<>>
    /\ raised = "none"
    /\ nextex = 1
    /\ close_emits = 0
    /\ op = Op("init", 0, <<>>, "", {})
    /\ pre = [ready_state |-> "opening", writable |-> FALSE,
              should_close |-> FALSE, request |-> None, data_request |-> None,
              websocket |-> "None"]

\* the dispatcher binds a GET exchange to the long-polling transport
PollRequest ==
    /\ kind = "polling"
    /\ nextex <= MaxExchanges
    /\ \E d \in DrainReactions :
         Apply(Polling_process_request(Arrive("GET"), nextex, d, <<>>),
               Op("on_poll_request", nextex, <<>>, d, {}))
    /\ nextex' = nextex + 1

\* the dispatcher binds a POST exchange carrying a payload
DataRequest ==
    /\ kind = "polling"
    /\ nextex <= MaxExchanges
    /\ \E ps \in Payloads :
         Apply(Polling_process_request(Arrive("POST"), nextex, "none",
                                       encode_payload(ps)),
               Op("on_data_request", nextex, ps, "", {}))
    /\ nextex' = nextex + 1

\* an exchange of any other method
OtherRequest ==
    /\ kind = "polling"
    /\ nextex <= MaxExchanges
    /\ Apply(Polling_process_request(Arrive("OPTIONS"), nextex, "none", <<>>),
             Op("process_request", nextex, <<>>, "OPTIONS", {}))
    /\ nextex' = nextex + 1

\* the session layer sends a batch over the long-polling transport
PollingSend ==
    /\ kind = "polling"
    /\ \E ps \in PollBatches :
         Apply(Polling_send(State, ps), Op("send", 0, ps, "", {}))
    /\ UNCHANGED nextex

\* close() called from outside the transport
Close ==
    /\ Apply(close(State), Op("close", 0, <<>>, "", {}))
    /\ UNCHANGED nextex

\* on_close() called from outside the transport
OnClose ==
    /\ Apply(on_close(State), Op("on_close", 0, <<>>, "", {}))
    /\ UNCHANGED nextex

\* the dispatcher binds the upgrade exchange to the websocket transport
WsProcessRequest ==
    /\ kind = "websocket"
    /\ nextex <= MaxExchanges
    /\ websocket = "None"
    /\ \E has_websocket \in BOOLEAN :
         Apply(Websocket_process_request(Arrive("GET"), nextex, has_websocket),
               Op("process_request", nextex, <<>>,
                  IF has_websocket THEN "websocket" ELSE "plain", {}))
    /\ nextex' = nextex + 1

\* the receive greenlet wakes up in websocket.receive(); a kill scheduled
\* by gevent.kill may or may not have reached it first
WsReceive ==
    /\ kind = "websocket"
    /\ \E j \in DOMAIN jobs :
         /\ jobs[j].state \in {"receiving", "kill_pending"}
         /\ \E result \in {"frame", "error", "eof"} :
              \E p \in InPackets :
                 /\ result # "frame" => p = ClosePacket
                 /\ Apply(read_from_ws(State, j, result, encode_packet(p)),
                          Op("receive", j, IF result = "frame" THEN <<p>> ELSE <<>>,
                             result, {}))
    /\ UNCHANGED nextex

\* the session layer sends a batch over the websocket transport
WsSend ==
    /\ kind = "websocket"
    /\ \E ps \in Batches :
         \E fails \in SUBSET (1..Len(ps)) :
            Apply(Websocket_send(State, ps, fails), Op("send", 0, ps, "", fails))
    /\ UNCHANGED nextex

\* the hub delivers a scheduled kill to a greenlet blocked in receive()
HubKill ==
    /\ kind = "websocket"
    /\ \E j \in DOMAIN jobs :
         /\ jobs[j].state = "kill_pending"
         /\ Apply([State EXCEPT !.jobs[j].state = "killed"],
                  Op("kill", j, <<>>, "", {}))
    /\ UNCHANGED nextex

Next ==
    \/ PollRequest
    \/ DataRequest
    \/ OtherRequest
    \/ PollingSend
    \/ Close
    \/ OnClose
    \/ WsProcessRequest
    \/ WsReceive
    \/ WsSend
    \/ HubKill

Spec == Init /\ [][Next]_vars

(* ---- properties ------------------------------------------------------ *)
PacketEvents(ps) ==
    [i \in 1..Len(ps) |-> Ev("packet", 0, 0, ps[i], <<>>, FALSE)]
HasClose(ps) == \E i \in 1..Len(ps) : ps[i].type = "close"
FirstClose(ps) ==
    CHOOSE k \in 1..Len(ps) :
        ps[k].type = "close" /\ \A m \in 1..(k - 1) : ps[m].type # "close"
Count(t, names) == Len(SelectEv(t, names))
AcceptedPoll == op.name = "on_poll_request" /\ pre.request = None
OverlapPoll == op.name = "on_poll_request" /\ pre.request # None

\* C1: when a GET exchange arrives while another poll exchange is bound and
\* unanswered, the new exchange is the one ended with status 500, and the
\* first exchange stays bound, not ended, with writable unchanged.
C1_OverlapRejectsNew ==
    OverlapPoll =>
        /\ exch[op.ex].is_set /\ exch[op.ex].status = 500
        /\ request = pre.request
        /\ ~exch[pre.request].is_set
        /\ writable = pre.writable

\* C2: a poll binding accepted while should_close is set writes a payload
\* containing a close packet to that poll's response, and should_close is
\* false when the binding call is over.
C2_DeferredCloseDelivered ==
    (AcceptedPoll /\ pre.should_close) =>
        /\ HasClose(decode_payload(exch[op.ex].body))
        /\ ~should_close

\* C3: a long-polling transport that was closed reaches 'closed': the poll
\* binding that carries the deferred close packet leaves ready_state
\* 'closed' and has emitted 'close'.
C3_ClosedAfterDeferredClose ==
    (AcceptedPoll /\ pre.should_close) =>
        /\ ready_state = "closed"
        /\ Count(trace, {"close"}) = 1

\* C4: for a POST payload with a close packet at position k, exactly the
\* packets before k are emitted as 'packet' events, in decode order, nothing
\* at or after k is emitted, and close() is invoked exactly once, leaving
\* ready_state 'closing'.
C4_ClosePacketHaltsPayload ==
    (op.name = "on_data_request" /\ HasClose(op.packets)) =>
        /\ SelectEv(trace, {"packet"})
             = PacketEvents(SubSeq(op.packets, 1, FirstClose(op.packets) - 1))
        /\ Count(trace, {"close()"}) = 1
        /\ ready_state = "closing"

C4_Witness ==
    /\ op.name = "on_data_request"
    /\ Len(op.packets) = 3
    /\ op.packets[1].type = "message"
    /\ op.packets[2].type = "close"
    /\ raised = "none"
    /\ Count(trace, {"packet"}) = 1

\* C5: the 'close' event is emitted at most once over the transport's life,
\* and an on_close() on a transport that is already closed emits nothing.
C5_OnCloseIdempotent ==
    /\ close_emits <= 1
    /\ (op.name = "on_close" /\ pre.ready_state = "closed") => trace = <<>>

Rank(rs) ==
    IF rs = "opening" THEN 0 ELSE IF rs = "open" THEN 1
    ELSE IF rs = "closing" THEN 2 ELSE 3

\* C6: ready_state only moves forward through opening, open, closing,
\* closed; once it is 'closed' no operation changes it.
C6_ReadyStateMonotonic ==
    [][Rank(ready_state') >= Rank(ready_state)]_vars

\* C7: a POST whose payload has n packets and no close packet emits exactly
\* those n 'packet' events in decode order, all before the response of the
\* data exchange is ended, and then ends it once with 200 'ok'.
C7_DataRequestEmitsThenOk ==
    (op.name = "on_data_request" /\ ~HasClose(op.packets)) =>
        /\ raised = "none"
        /\ SelectEv(trace, {"packet", "end", "abort"})
             = PacketEvents(op.packets)
                 \o <<Ev("end", op.ex, 200, NoPacket, <<"ok">>, FALSE)>>
        /\ exch[op.ex].is_set
        /\ exch[op.ex].status = 200
        /\ exch[op.ex].body = <<"ok">>

C7_Witness ==
    /\ op.name = "on_data_request"
    /\ Len(op.packets) = 3
    /\ ~HasClose(op.packets)
    /\ op.packets[1] # op.packets[2]
    /\ Count(trace, {"packet"}) = 3
    /\ exch[op.ex].is_set

WsSendOp == kind = "websocket" /\ op.name = "send" /\ pre.websocket # "None"
Failed(i) == i \in op.fails \/ pre.websocket = "closed"
ErrorReport ==
    Ev(IF error_listener THEN "error" ELSE "ignored_error", 0, 0, NoPacket,
       <<>>, FALSE)

RECURSIVE ExpectedSendTrace(_)
\* the frame sends and error reports of a batch, from position i on
ExpectedSendTrace(i) ==
    IF i > Len(op.packets) THEN <<>>
    ELSE <<Ev("ws.send", i, IF Failed(i) THEN 0 ELSE 1, op.packets[i],
              encode_packet(op.packets[i]), FALSE)>>
         \o (IF Failed(i) THEN <<ErrorReport>> ELSE <<>>)
         \o ExpectedSendTrace(i + 1)

\* C8: a websocket send() of a batch attempts one frame per packet in input
\* order, each with writable false during the send; a frame that fails is
\* reported through on_error exactly once (an 'error' event when a listener
\* is registered) and the later frames are still sent; writable is true when
\* send returns.
C8_SendBatchSurvivesFailures ==
    WsSendOp =>
        /\ raised = "none"
        /\ trace = ExpectedSendTrace(1)
        /\ writable

C8_Witness ==
    /\ WsSendOp
    /\ pre.websocket = "open"
    /\ error_listener
    /\ Len(op.packets) = 2
    /\ op.packets[1] # op.packets[2]
    /\ op.fails = {1}
    /\ Count(trace, {"error"}) = 1
    /\ Count(trace, {"ws.send"}) = 2
    /\ writable

EofOp == kind = "websocket" /\ op.name = "receive" /\ op.arg = "eof"

\* C9: when receive() returns None the transport is 'closed', the receive
\* task has returned, the already-ended error of the final end() of the
\* upgrade exchange is caught and not propagated, and on_data is not called
\* in that wake-up nor ever after the task has returned.
C9_EndOfStreamClosesTransport ==
    /\ EofOp =>
         /\ ready_state = "closed"
         /\ jobs[op.ex].state = "finished"
         /\ raised = "none"
         /\ Count(trace, {"caught"}) = 1
    /\ (\E j \in DOMAIN jobs : jobs[j].state = "finished") =>
         Count(trace, {"on_data"}) = 0

C9_Witness ==
    /\ EofOp
    /\ ready_state = "closed"
    /\ jobs[op.ex].state = "finished"
    /\ exch[jobs[op.ex].request].body = <<"closed">>

\* C10: a receive error at any iteration is reported through on_error and
\* leaves the loop running, waiting for the next frame.
C10_ReceiveErrorKeepsLoop ==
    (kind = "websocket" /\ op.name = "receive" /\ op.arg = "error") =>
        /\ raised = "none"
        /\ jobs[op.ex].state \in {"receiving", "kill_pending"}
        /\ Count(trace, {"error", "ignored_error"}) = 1

PlainBindOp ==
    kind = "websocket" /\ op.name = "process_request" /\ op.arg = "plain"

\* C11: process_request on an exchange without an upgraded socket ends that
\* exchange with status 500 and nothing else: no receive task is spawned,
\* websocket stays unset, writable stays false, ready_state is unchanged.
C11_PlainExchangeRejected ==
    PlainBindOp =>
        /\ raised = "none"
        /\ trace = <<Ev("end", op.ex, 500, NoPacket,
                        <<"not able to create websocket">>, FALSE)>>
        /\ exch[op.ex].is_set /\ exch[op.ex].status = 500
        /\ jobs = <<>>
        /\ websocket = "None"
        /\ ~writable /\ ~pre.writable
        /\ ready_state = pre.ready_state

C11_Witness ==
    /\ PlainBindOp
    /\ exch[op.ex].status = 500
    /\ request = op.ex
    /\ ready_state = "opening"

\* the data exchange that is bound while close() runs in the last call:
\* the POST being processed when its payload holds a close packet, or the
\* one left bound when close() is called from outside
DataBoundAtClose ==
    IF op.name = "on_data_request" /\ HasClose(op.packets) THEN op.ex
    ELSE IF op.name = "close" THEN pre.data_request
    ELSE None

\* C12: whenever close() is called on a long-polling transport while a data
\* exchange is bound, that exchange is aborted before close() returns,
\* whether or not the transport is writable or a poll is bound.
C12_CloseAbortsDataExchange ==
    (kind = "polling" /\ DataBoundAtClose # None) =>
        exch[DataBoundAtClose].aborted

\* C13: an external close() on a websocket transport with a running receive
\* task leaves the task cancelled, the socket closed and the transport
\* 'closed', and no 'packet' event is emitted once that close() has
\* returned, however the receive task is scheduled.
C13_NoPacketAfterClose ==
    /\ (kind = "websocket" /\ op.name = "close" /\ pre.websocket = "open") =>
         /\ ready_state = "closed"
         /\ websocket = "closed"
         /\ \A j \in DOMAIN jobs : jobs[j].state # "receiving"
    /\ (kind = "websocket" /\ op.name = "receive" /\ pre.websocket = "closed") =>
         Count(trace, {"packet"}) = 0

PollingCloseOp == kind = "polling" /\ op.name = "close"

\* C14: close() on a long-polling transport that is writable sends one
\* close packet through send() on the poll exchange that is bound: that
\* poll's response body is a payload containing the close packet, and
\* should_close stays false.
C14_CloseRidesOnBoundPoll ==
    (PollingCloseOp /\ pre.writable /\ pre.request # None) =>
        /\ HasClose(decode_payload(exch[pre.request].body))
        /\ ~should_close

\* C15: close() on a long-polling transport with no poll exchange bound
\* completes without error, with ready_state 'closing' and should_close
\* true.
C15_CloseWithoutPollDefers ==
    (PollingCloseOp /\ pre.request = None) =>
        /\ raised = "none"
        /\ ready_state = "closing"
        /\ should_close

\* C16: on a long-polling transport writable is true only while a poll
\* exchange is bound whose response has not been finalized; it becomes true
\* only in an accepted on_poll_request and is false once that poll's
\* response has been finalized by a send, by close() or by an overlap
\* rejection.
C16_WritableOnlyWithOpenPoll ==
    kind = "polling" =>
        /\ writable => (request # None /\ ~exch[request].is_set)
        /\ (writable /\ ~pre.writable) => (AcceptedPoll /\ request = op.ex)
        /\ (pre.request # None /\ exch[pre.request].is_set) => ~writable

C16_Witness ==
    /\ kind = "polling"
    /\ op.name = "send"
    /\ pre.writable
    /\ pre.request # None
    /\ exch[pre.request].is_set
    /\ ~writable
    /\ request = None

WritesOf(t) == SelectEv(t, {"write"})

\* C17: the response of a poll exchange is finalized at most once, whatever
\* the drain listener's send, the forced noop send, close() and an overlap
\* rejection do together, and none of them writes once the poll binding has
\* been released.
C17_PollFinalizedOnce ==
    kind = "polling" =>
        /\ \A x \in Exchanges :
             exch[x].method = "GET" => exch[x].end_calls <= 1
        /\ op.name \in {"on_poll_request", "close"} =>
             \A i \in 1..Len(WritesOf(trace)) : WritesOf(trace)[i].ex # None

C17_Witness ==
    /\ AcceptedPoll
    /\ op.arg = "send"
    /\ Len(WritesOf(trace)) = 1
    /\ exch[op.ex].is_set
    /\ exch[op.ex].end_calls = 1
    /\ request = None

\* C18: no response is written to a data exchange after it was aborted: an
\* end() of an exchange never follows the abort of that exchange, so a POST
\* whose own close packet made close() abort it is not answered 200 'ok'.
C18_NoResponseAfterAbort ==
    \A i, k \in 1..Len(trace) :
        (i < k /\ trace[i].ev = "abort" /\ trace[k].ev = "end")
            => trace[k].ex # trace[i].ex

\* C19: an iteration of the receive loop whose receive() raised delivers
\* nothing to on_data, so on_data is called once per frame received.
C19_ErrorIterationDeliversNothing ==
    /\ (kind = "websocket" /\ op.name = "receive" /\ op.arg = "error") =>
         Count(trace, {"on_data"}) = 0
    /\ (kind = "websocket" /\ op.name = "receive" /\ op.arg = "frame") =>
         Count(trace, {"on_data"}) = 1

\* C20: a transport whose ready_state is 'closing' or 'closed' is not
\* writable; a websocket transport whose socket was closed by close() has
\* writable false.
C20_NotWritableOnceClosing ==
    /\ ready_state \in {"closing", "closed"} => ~writable
    /\ (kind = "websocket" /\ websocket = "closed") => ~writable
====
